---- MODULE Spec2Model ----
(***************************************************************************)
(* The in-memory address store of main.py: the module-level list           *)
(* addresses_db, the AddressModel validation, and the route handlers that  *)
(* append to, filter, search and list it.                                  *)
(*                                                                         *)
(* Text values are sequences of one-character strings, so that lower() and *)
(* the substring test `in` are computed character by character.            *)
(***************************************************************************)
EXTENDS Integers, Sequences, FiniteSets, TLC

VARIABLES
    addresses_db,  \* the list the global name addresses_db is bound to
    request,       \* the request the last handler served
    response,      \* what that handler returned
    retired,       \* history: ids of the records a delete has removed
    handlers,      \* threaded run: each worker's handler, position and locals
    delete_steps   \* threaded run: how many steps delete handlers have taken

vars == <<addresses_db, request, response, retired, handlers, delete_steps>>

(***************************************************************************)
(* Bounds of the model.                                                    *)
(***************************************************************************)
MaxRecords == 3   \* creates are cut off once the store holds this many
MaxTermLen == 2   \* longest search term tried
MaxWorkers == 3   \* handlers running at once in the threaded run

(***************************************************************************)
(* AddressModel                                                            *)
(***************************************************************************)
RequiredFields == {"street_address", "city", "state", "postal_code"}

TextFields == RequiredFields \cup {"country"}

MinLength == 1

USA == <<"U", "S", "A">>

\* Faulty variant: the default country is misspelt.
FieldDefaultUS(f) == <<"U", "S">>

\* The default of a field that has one (only country has).
FieldDefault(f) == USA

HasDefault(f) == f = "country"

\* Values a client sends for each field; <<>> is the empty string.
FieldTexts ==
    [street_address |-> {<<>>, <<"B", "c">>},
     city           |-> {<<>>, <<"c">>},
     state          |-> {<<>>, <<"d">>},
     postal_code    |-> {<<>>, <<"e">>},
     country        |-> {<<>>, <<"f">>}]

\* A payload is a function from the field names it carries to their values;
\* country may be left out.
Payloads ==
    { p \in [TextFields -> UNION {FieldTexts[f] : f \in TextFields}] :
          \A f \in TextFields : p[f] \in FieldTexts[f] }
    \cup
    { p \in [RequiredFields -> UNION {FieldTexts[f] : f \in RequiredFields}] :
          \A f \in RequiredFields : p[f] \in FieldTexts[f] }

\* Faulty variant: min_length is not enforced; only a missing field is an error.
ValidationErrorsPresenceOnly(payload) ==
    { f \in TextFields : f \notin DOMAIN payload /\ ~HasDefault(f) }

\* Faulty variant: min_length is enforced on the four required fields only.
ValidationErrorsRequiredOnly(payload) ==
    { f \in TextFields :
        IF f \in DOMAIN payload
        THEN f \in RequiredFields /\ Len(payload[f]) < 1
        ELSE ~HasDefault(f) }

\* The fields pydantic reports an error for: a field that is present and
\* shorter than min_length, or absent without a default.  All fields are
\* validated, so every offending field is reported.
ValidationErrors(payload) ==
    { f \in TextFields :
        IF f \in DOMAIN payload
        THEN Len(payload[f]) < MinLength
        ELSE ~HasDefault(f) }

is_valid(payload) == ValidationErrors(payload) = {}

\* model_dump() of the validated model: the five fields, defaults filled in.
model_dump(payload) ==
    [f \in TextFields |->
        IF f \in DOMAIN payload THEN payload[f] ELSE FieldDefault(f)]

\* Faulty variant: the id is the length itself.
NextIdFromZero(db) == Len(db)

\* address_data['id'] = len(addresses_db) + 1
NextId(db) == Len(db) + 1

\* address_data after the id is set: a dict with the five fields and 'id'.
AddressData(payload, db) ==
    [street_address |-> model_dump(payload)["street_address"],
     city           |-> model_dump(payload)["city"],
     state          |-> model_dump(payload)["state"],
     postal_code    |-> model_dump(payload)["postal_code"],
     country        |-> model_dump(payload)["country"],
     id             |-> NextId(db)]

(***************************************************************************)
(* str.lower() and the substring test                                      *)
(***************************************************************************)
LowerChar(c) ==
    CASE c = "A" -> "a"
      [] c = "B" -> "b"
      [] c = "C" -> "c"
      [] c = "S" -> "s"
      [] c = "U" -> "u"
      [] OTHER   -> c

\* Faulty variant: the text is compared as typed.
lower_unchanged(s) == s

lower(s) == [i \in 1..Len(s) |-> LowerChar(s[i])]

\* needle in hay
Contains(needle, hay) ==
    \E i \in 0..(Len(hay) - Len(needle)) :
        SubSeq(hay, i + 1, i + Len(needle)) = needle

\* Faulty variant: the country is not searched.
MatchesWithoutCountry(search_term, addr) ==
    \/ Contains(search_term, lower(addr.street_address))
    \/ Contains(search_term, lower(addr.city))
    \/ Contains(search_term, lower(addr.state))
    \/ Contains(search_term, lower(addr.postal_code))

\* The condition of the comprehension in search_addresses.
Matches(search_term, addr) ==
    \/ Contains(search_term, lower(addr.street_address))
    \/ Contains(search_term, lower(addr.city))
    \/ Contains(search_term, lower(addr.state))
    \/ Contains(search_term, lower(addr.postal_code))
    \/ Contains(search_term, lower(addr.country))

filtered_addresses(db, term) ==
    LET search_term == lower(term)
        Keep(addr)  == Matches(search_term, addr)
    IN  SelectSeq(db, Keep)

\* Faulty variant: the id is taken for a position in the list.
WithoutPosition(db, address_id) ==
    [i \in 1..(Len(db) - (IF address_id \in 1..Len(db) THEN 1 ELSE 0)) |->
        IF address_id \in 1..Len(db) /\ i >= address_id THEN db[i + 1] ELSE db[i]]

\* [addr for addr in addresses_db if addr['id'] != address_id]
WithoutId(db, address_id) ==
    LET Keep(addr) == addr.id # address_id
    IN  SelectSeq(db, Keep)

(***************************************************************************)
(* Inputs                                                                  *)
(***************************************************************************)
TermChars == {"a", "C"}

RECURSIVE TextsUpTo(_)
TextsUpTo(n) ==
    IF n = 0 THEN {<<>>}
    ELSE LET shorter == TextsUpTo(n - 1)
         IN  shorter \cup { Append(s, c) : s \in shorter, c \in TermChars }

SearchTerms == TextsUpTo(MaxTermLen)

AddressIds == 0..(MaxRecords + 1)

NoRequest == [op |-> "none"]

NoResponse == [status |-> "none"]

Idle == [pc |-> "idle"]

Workers == 1..MaxWorkers

Init ==
    /\ addresses_db = <<>>
    /\ request = NoRequest
    /\ response = NoResponse
    /\ retired = {}
    /\ handlers = [w \in Workers |-> Idle]
    /\ delete_steps = 0

(***************************************************************************)
(* Handlers, each served from start to end without another in between      *)
(***************************************************************************)
\* POST /address
submit_address(payload) ==
    /\ request' = [op |-> "submit_address", payload |-> payload]
    /\ IF is_valid(payload)
       THEN /\ Len(addresses_db) < MaxRecords
            /\ addresses_db' = Append(addresses_db, AddressData(payload, addresses_db))
            /\ response' = [status |-> "submitted",
                            street_address |-> model_dump(payload)["street_address"],
                            city |-> model_dump(payload)["city"]]
       ELSE /\ addresses_db' = addresses_db
            /\ response' = [status |-> "invalid",
                            errors |-> ValidationErrors(payload)]
    /\ UNCHANGED <<retired, handlers, delete_steps>>

\* POST /api/addresses; the body is validated against AddressModel before the
\* handler runs, and a body that fails is answered 422 without running it.
api_create_address(payload) ==
    /\ request' = [op |-> "api_create_address", payload |-> payload]
    /\ IF is_valid(payload)
       THEN /\ Len(addresses_db) < MaxRecords
            /\ addresses_db' = Append(addresses_db, AddressData(payload, addresses_db))
            /\ response' = [status |-> "created",
                            address |-> AddressData(payload, addresses_db)]
       ELSE /\ addresses_db' = addresses_db
            /\ response' = [status |-> "unprocessable",
                            errors |-> ValidationErrors(payload)]
    /\ UNCHANGED <<retired, handlers, delete_steps>>

\* DELETE /address/{address_id}: the global is rebound to the filtered copy.
remove(address_id) ==
    /\ request' = [op |-> "delete_address", address_id |-> address_id]
    /\ addresses_db' = WithoutId(addresses_db, address_id)
    /\ response' = [status |-> "deleted"]
    /\ UNCHANGED <<handlers, delete_steps>>

delete_address(address_id) ==
    /\ remove(address_id)
    /\ UNCHANGED retired

\* The same handler, with the ids it removes written to the history.
delete_address_recorded(address_id) ==
    /\ remove(address_id)
    /\ retired' = retired \cup
           { addresses_db[i].id : i \in { j \in 1..Len(addresses_db) :
                                            addresses_db[j].id = address_id } }

\* POST /search-addresses
search_addresses(term) ==
    /\ request' = [op |-> "search_addresses", search |-> term]
    /\ response' = [status |-> "rows",
                    rows |-> filtered_addresses(addresses_db, term)]
    /\ UNCHANGED <<addresses_db, retired, handlers, delete_steps>>

\* GET /addresses
address_list ==
    /\ request' = [op |-> "address_list"]
    /\ response' = [status |-> "page", rows |-> addresses_db]
    /\ UNCHANGED <<addresses_db, retired, handlers, delete_steps>>

\* GET /api/addresses
api_get_addresses ==
    /\ request' = [op |-> "api_get_addresses"]
    /\ response' = [status |-> "listed",
                    addresses |-> addresses_db,
                    count |-> Len(addresses_db)]
    /\ UNCHANGED <<addresses_db, retired, handlers, delete_steps>>

Next ==
    \/ \E payload \in Payloads : submit_address(payload)
    \/ \E payload \in Payloads : api_create_address(payload)
    \/ \E address_id \in AddressIds : delete_address(address_id)
    \/ \E term \in SearchTerms : search_addresses(term)
    \/ address_list
    \/ api_get_addresses

Spec == Init /\ [][Next]_vars

\* The same handlers, with the ids every delete removes kept in retired.
HistoryNext ==
    \/ \E payload \in Payloads : submit_address(payload)
    \/ \E payload \in Payloads : api_create_address(payload)
    \/ \E address_id \in AddressIds : delete_address_recorded(address_id)

HistorySpec == Init /\ [][HistoryNext]_vars

\* Runs in which no delete is requested: creates and listings only.
CreateOnlyNext ==
    \/ \E payload \in Payloads : submit_address(payload)
    \/ \E payload \in Payloads : api_create_address(payload)
    \/ address_list
    \/ api_get_addresses

CreateOnlySpec == Init /\ [][CreateOnlyNext]_vars

(***************************************************************************)
(* The threaded run.  api_create_address and delete_address are plain      *)
(* `def` handlers, which the framework runs on worker threads; nothing     *)
(* guards addresses_db.  Each worker serves one request, one statement     *)
(* part at a time, and the workers' steps interleave freely.               *)
(*                                                                         *)
(* A delete holds a reference to the list object it loaded.  While that    *)
(* object is still the one the global names (live), it sees the appends    *)
(* made to it; once another delete rebinds the global, the object keeps    *)
(* the contents it had at that moment (list).                              *)
(***************************************************************************)
ValidPayloads == { p \in Payloads : is_valid(p) }

\* line 265: address_data = address.model_dump(); id 0 stands for the key
\* 'id' not being set yet.
api_create_address_dump(w, payload) ==
    /\ handlers[w].pc = "idle"
    /\ handlers' = [handlers EXCEPT ![w] =
           [pc |-> "len", op |-> "create",
            address_data |-> [AddressData(payload, <<>>) EXCEPT !.id = 0],
            epoch |-> 0]]
    /\ UNCHANGED <<addresses_db, request, response, retired, delete_steps>>

\* line 266: address_data['id'] = len(addresses_db) + 1
api_create_address_len(w) ==
    /\ handlers[w].pc = "len"
    /\ handlers' = [handlers EXCEPT ![w].pc = "append",
                                    ![w].address_data.id = NextId(addresses_db)]
    /\ UNCHANGED <<addresses_db, request, response, retired, delete_steps>>

\* lines 267-268: addresses_db.append(address_data); return
api_create_address_append(w) ==
    /\ handlers[w].pc = "append"
    /\ addresses_db' = Append(addresses_db, handlers[w].address_data)
    /\ handlers' = [handlers EXCEPT ![w].pc = "done",
                                    ![w].epoch = delete_steps]
    /\ UNCHANGED <<request, response, retired, delete_steps>>

\* line 208, the iterable: the global addresses_db is loaded
delete_address_load(w, address_id) ==
    /\ handlers[w].pc = "idle"
    /\ handlers' = [handlers EXCEPT ![w] =
           [pc |-> "filter", op |-> "delete", address_id |-> address_id,
            live |-> TRUE, list |-> <<>>]]
    /\ delete_steps' = delete_steps + 1
    /\ UNCHANGED <<addresses_db, request, response, retired>>

\* line 208, the comprehension: the filtered copy of the loaded list is built
delete_address_filter(w) ==
    /\ handlers[w].pc = "filter"
    /\ LET loaded == IF handlers[w].live THEN addresses_db ELSE handlers[w].list
       IN  handlers' = [handlers EXCEPT ![w].pc = "store",
                                        ![w].live = FALSE,
                                        ![w].list = WithoutId(loaded, handlers[w].address_id)]
    /\ delete_steps' = delete_steps + 1
    /\ UNCHANGED <<addresses_db, request, response, retired>>

\* lines 208-209, the assignment: the global is rebound to the copy; return
delete_address_store(w) ==
    /\ handlers[w].pc = "store"
    /\ addresses_db' = handlers[w].list
    /\ handlers' = [v \in Workers |->
           IF v = w
           THEN [handlers[w] EXCEPT !.pc = "done"]
           ELSE IF handlers[v].pc = "filter" /\ handlers[v].live
                THEN [handlers[v] EXCEPT !.live = FALSE, !.list = addresses_db]
                ELSE handlers[v]]
    /\ delete_steps' = delete_steps + 1
    /\ UNCHANGED <<request, response, retired>>

ThreadedNext ==
    \/ \E w \in Workers, payload \in ValidPayloads : api_create_address_dump(w, payload)
    \/ \E w \in Workers : api_create_address_len(w)
    \/ \E w \in Workers : api_create_address_append(w)
    \/ \E w \in Workers, address_id \in AddressIds : delete_address_load(w, address_id)
    \/ \E w \in Workers : delete_address_filter(w)
    \/ \E w \in Workers : delete_address_store(w)

ThreadedSpec == Init /\ [][ThreadedNext]_vars

(***************************************************************************)
(* Vocabulary of the properties, stated without the operators above.       *)
(***************************************************************************)
CreateOps == {"submit_address", "api_create_address"}

ListOps == {"address_list", "api_get_addresses"}

Succeeded(resp) == resp.status \in {"submitted", "created"}

Rejected(req, resp) ==
    \/ req.op = "submit_address" /\ resp.status = "invalid"
    \/ req.op = "api_create_address" /\ resp.status = "unprocessable"

Ids(db) == { db[i].id : i \in 1..Len(db) }

EmptyRequired(p) == { f \in RequiredFields \cap DOMAIN p : p[f] = <<>> }

RequiredNonEmpty(p) ==
    \A f \in RequiredFields : f \in DOMAIN p /\ p[f] # <<>>

\* The record a create is to store for payload p when the store holds n records.
ExpectedRecord(p, n) ==
    [street_address |-> p["street_address"],
     city           |-> p["city"],
     state          |-> p["state"],
     postal_code    |-> p["postal_code"],
     country        |-> IF "country" \in DOMAIN p THEN p["country"] ELSE <<"U", "S", "A">>,
     id             |-> n + 1]

\* out holds exactly the elements of db that satisfy Keep, in db's order.
KeptInOrder(db, out, Keep(_)) ==
    LET kept == { i \in 1..Len(db) : Keep(db[i]) }
    IN  /\ Len(out) = Cardinality(kept)
        /\ \A i \in kept : out[Cardinality({ j \in kept : j <= i })] = db[i]

Small == [A |-> "a", B |-> "b", C |-> "c", S |-> "s", U |-> "u"]

FoldCase(s) == [i \in 1..Len(s) |-> IF s[i] \in DOMAIN Small THEN Small[s[i]] ELSE s[i]]

\* t occurs in s as a contiguous run of characters.
OccursIn(t, s) ==
    \E k \in 0..Len(s) :
        /\ k + Len(t) <= Len(s)
        /\ \A i \in 1..Len(t) : s[k + i] = t[i]

InSomeField(term, addr) ==
    \E f \in TextFields : OccursIn(FoldCase(term), FoldCase(addr[f]))

Concatenation(addr) ==
    addr.street_address \o addr.city \o addr.state \o addr.postal_code \o addr.country

InConcatenation(term, addr) ==
    OccursIn(FoldCase(term), FoldCase(Concatenation(addr)))

(***************************************************************************)
(* C1                                                                      *)
(***************************************************************************)
\* C1: when a create succeeds, the id of the record it appended differs from
\* the id of every record that was in the store at that moment.
UniqueIdAtInsertion ==
    Succeeded(response) =>
        \A i \in 1..(Len(addresses_db) - 1) :
            addresses_db[i].id # addresses_db[Len(addresses_db)].id

(***************************************************************************)
(* C2                                                                      *)
(***************************************************************************)
\* C2: the id a create assigns is never the id of a record that has been
\* deleted.
IdNotReusedAfterDeletion ==
    Succeeded(response) =>
        addresses_db[Len(addresses_db)].id \notin retired

(***************************************************************************)
(* C3                                                                      *)
(***************************************************************************)
\* C3 as written: a create whose four required fields are non-empty succeeds
\* and its record, carrying the input and the id len + 1, is the last of the
\* store.
RequiredFieldsSuffice ==
    (request.op \in CreateOps /\ RequiredNonEmpty(request.payload)) =>
        /\ Succeeded(response)
        /\ addresses_db # <<>>
        /\ addresses_db[Len(addresses_db)] =
               ExpectedRecord(request.payload, Len(addresses_db) - 1)

CountryAcceptable(p) == "country" \in DOMAIN p => p["country"] # <<>>

\* C3 amended: a create whose four required fields are non-empty and whose
\* country is left out or non-empty succeeds; the store becomes the old store
\* followed by one record that carries the input (country USA when left out)
\* and the id len + 1, so the records already stored keep their place.
ValidCreateAppends ==
    [][ (/\ request'.op \in CreateOps
         /\ RequiredNonEmpty(request'.payload)
         /\ CountryAcceptable(request'.payload))
        => /\ Succeeded(response')
           /\ Len(addresses_db') = Len(addresses_db) + 1
           /\ SubSeq(addresses_db', 1, Len(addresses_db)) = addresses_db
           /\ addresses_db'[Len(addresses_db')] =
                  ExpectedRecord(request'.payload, Len(addresses_db))
           /\ (request'.op = "api_create_address" =>
                  response'.address = ExpectedRecord(request'.payload, Len(addresses_db)))
      ]_vars

\* A create that left country out has been appended behind an earlier record.
ValidCreateAppendsWitness ==
    /\ request.op \in CreateOps
    /\ RequiredNonEmpty(request.payload)
    /\ "country" \notin DOMAIN request.payload
    /\ Succeeded(response)
    /\ Len(addresses_db) >= 2
    /\ addresses_db[Len(addresses_db)].country = <<"U", "S", "A">>
    /\ addresses_db[1].country = <<"f">>

(***************************************************************************)
(* C4                                                                      *)
(***************************************************************************)
\* C4: a create with an empty required field is rejected on either path, the
\* errors name every empty required field, and the store is left as it was.
EmptyRequiredFieldRejected ==
    [][ (request'.op \in CreateOps /\ EmptyRequired(request'.payload) # {})
        => /\ Rejected(request', response')
           /\ EmptyRequired(request'.payload) \subseteq response'.errors
           /\ addresses_db' = addresses_db
      ]_vars

\* The JSON endpoint has rejected an empty city while the store held records.
EmptyRequiredFieldRejectedWitness ==
    /\ request.op = "api_create_address"
    /\ request.payload["city"] = <<>>
    /\ request.payload["street_address"] # <<>>
    /\ response.status = "unprocessable"
    /\ "city" \in response.errors
    /\ Len(addresses_db) >= 1

(***************************************************************************)
(* C5                                                                      *)
(***************************************************************************)
\* C5: every stored record has a non-empty value in each of its five text
\* fields.
StoredFieldsNonEmpty ==
    \A i \in 1..Len(addresses_db) :
        \A f \in TextFields : Len(addresses_db[i][f]) >= 1

\* The store holds a record with a supplied country and one with the default.
StoredFieldsNonEmptyWitness ==
    /\ Len(addresses_db) >= 2
    /\ \E i \in 1..Len(addresses_db) : addresses_db[i].country = <<"f">>
    /\ \E i \in 1..Len(addresses_db) : addresses_db[i].country = <<"U", "S", "A">>
    /\ request.op \in CreateOps
    /\ Succeeded(response)

(***************************************************************************)
(* C6                                                                      *)
(***************************************************************************)
\* C6: a delete answers without failing and leaves exactly the records whose
\* id is not the one given, unchanged and in their order; when no record has
\* that id the store is left as it was; and a delete repeated right after
\* itself changes nothing more.
DeleteRemovesExactlyTheId ==
    [][ request'.op = "delete_address"
        => LET OtherId(addr) == addr.id # request'.address_id
           IN  /\ response'.status = "deleted"
               /\ KeptInOrder(addresses_db, addresses_db', OtherId)
               /\ (request'.address_id \notin Ids(addresses_db)
                      => addresses_db' = addresses_db)
               /\ (request = request' => addresses_db' = addresses_db)
      ]_vars

\* delete(1) has been served and left the records with ids 2 and 3, in order.
DeleteRemovesExactlyTheIdWitness ==
    /\ request.op = "delete_address"
    /\ request.address_id = 1
    /\ Len(addresses_db) = 2
    /\ addresses_db[1].id = 2
    /\ addresses_db[2].id = 3
    /\ addresses_db[1].country # addresses_db[2].country

(***************************************************************************)
(* C7                                                                      *)
(***************************************************************************)
\* C7: a search returns exactly the stored records that hold the lower-cased
\* term inside at least one of their five lower-cased fields, in store order;
\* the empty term returns every record; the store is left as it was.
SearchReturnsFieldMatches ==
    [][ request'.op = "search_addresses"
        => LET Hit(addr) == InSomeField(request'.search, addr)
           IN  /\ response'.status = "rows"
               /\ KeptInOrder(addresses_db, response'.rows, Hit)
               /\ (request'.search = <<>> => response'.rows = addresses_db)
               /\ addresses_db' = addresses_db
      ]_vars

\* A search for "a" has returned the one record of two whose country is USA.
SearchReturnsFieldMatchesWitness ==
    /\ request.op = "search_addresses"
    /\ request.search = <<"a">>
    /\ Len(addresses_db) = 2
    /\ addresses_db[1].country = <<"f">>
    /\ response.rows = <<addresses_db[2]>>

(***************************************************************************)
(* C8                                                                      *)
(***************************************************************************)
\* C8: in a run of creates and listings only, every successful create adds
\* one record behind those already stored, and a listing returns the whole
\* store, whose ids are 1..N in order, leaves the store as it was, and (JSON
\* endpoint) reports the number of records it returns.
ListAfterCreates ==
    [][ /\ (Succeeded(response') /\ request'.op \in CreateOps /\ addresses_db' # addresses_db
              => /\ Len(addresses_db') = Len(addresses_db) + 1
                 /\ SubSeq(addresses_db', 1, Len(addresses_db)) = addresses_db)
        /\ (request'.op = "address_list"
              => /\ response'.rows = addresses_db
                 /\ \A i \in 1..Len(response'.rows) : response'.rows[i].id = i
                 /\ addresses_db' = addresses_db)
        /\ (request'.op = "api_get_addresses"
              => /\ response'.addresses = addresses_db
                 /\ \A i \in 1..Len(response'.addresses) : response'.addresses[i].id = i
                 /\ response'.count = Len(response'.addresses)
                 /\ addresses_db' = addresses_db)
      ]_vars

\* The JSON listing has returned three records.
ListAfterCreatesWitness ==
    /\ request.op = "api_get_addresses"
    /\ response.count = 3
    /\ Len(response.addresses) = 3
    /\ response.addresses[3].id = 3

(***************************************************************************)
(* C9                                                                      *)
(***************************************************************************)
\* C9 as written: a search returns exactly the stored records whose five
\* fields, concatenated and lower-cased, hold the lower-cased term.
SearchMatchesConcatenation ==
    request.op = "search_addresses" =>
        LET Hit(addr) == InConcatenation(request.search, addr)
        IN  KeptInOrder(addresses_db, response.rows, Hit)

\* C9 amended: every record a search returns holds the term in the
\* concatenation of its fields, and for a term of at most one character the
\* search returns exactly the records whose concatenation holds it.
SearchWithinConcatenation ==
    request.op = "search_addresses" =>
        LET Hit(addr) == InConcatenation(request.search, addr)
        IN  /\ \A i \in 1..Len(response.rows) : Hit(response.rows[i])
            /\ (Len(request.search) <= 1
                   => KeptInOrder(addresses_db, response.rows, Hit))

\* A one-character search has returned some but not all of the store.
SearchWithinConcatenationWitness ==
    /\ request.op = "search_addresses"
    /\ Len(request.search) = 1
    /\ Len(response.rows) >= 1
    /\ Len(response.rows) < Len(addresses_db)

(***************************************************************************)
(* C10                                                                     *)
(***************************************************************************)
Done(w) == handlers[w].pc = "done"

Created(w) == Done(w) /\ handlers[w].op = "create"

DeleteTargets ==
    { handlers[w].address_id :
        w \in { v \in Workers : handlers[v].pc # "idle" /\ handlers[v].op = "delete" } }

\* C10: in the threaded run, once every worker has finished, each record
\* whose create returned and whose id no delete was aimed at is in the store;
\* and two creates that returned with no step of a delete between them were
\* given different ids.
NoLostUpdateNoSharedId ==
    /\ (\A w \in Workers : Done(w))
          => \A w \in Workers :
                 (Created(w) /\ handlers[w].address_data.id \notin DeleteTargets)
                    => \E i \in 1..Len(addresses_db) :
                           addresses_db[i] = handlers[w].address_data
    /\ \A w, v \in Workers :
           (w # v /\ Created(w) /\ Created(v) /\ handlers[w].epoch = handlers[v].epoch)
              => handlers[w].address_data.id # handlers[v].address_data.id

====
